---- MODULE Spec2Model ----
(***************************************************************************)
(* Model of the hematological rule engine:                                 *)
(*   src/rule_processor.py      RuleProcessor (load_rule, apply_rule)      *)
(*   src/simple_rule_engine.py  SimpleRuleEngine                           *)
(* Python values are tagged records so that values of different Python     *)
(* types can be compared; strings are sequences of one-character strings.  *)
(***************************************************************************)
EXTENDS Integers, Sequences, FiniteSets, TLC

VARIABLES
    fs,            \* the file system: path -> [exists, data] (the rule resource)
    input_values,  \* the input mapping of the latest apply_rule call
    ret,           \* what the latest apply_rule call returned or raised
    pc,            \* position of the driver of the specification in use
    df,            \* the abstracted measurements given to the extractor
    concept_name,  \* the concept the extractor is asked for
    snapshot_time, \* the instant the extractor is asked for
    latest,        \* what get_latest_abstracted_value returned
    calls,         \* history: the apply_rule calls made, each with the resource it met
    all_patients,  \* the roster the data access returns
    abstracted,    \* the mediator's data: patient id -> what mediator.run does
    snapshot_date, \* the snapshot_date argument of the population analysis
    clock,         \* datetime.now()
    next_row,      \* position of the roster loop
    results,       \* the results list of the population analysis
    outcomes       \* history: what each single-patient analysis returned or raised

ruleVars == <<input_values, ret>>
extractVars == <<df, concept_name, snapshot_time, latest>>
engineVars == <<all_patients, abstracted, snapshot_date, clock, next_row, results, outcomes>>
vars == <<fs, pc, ruleVars, extractVars, calls, engineVars>>

(***************************************************************************)
(* Bounds of the model.                                                    *)
(***************************************************************************)
MaxLen == 1      \* longest string given as an input value
MaxKeyLen == 3   \* longest key of a rule table
MaxRules == 1    \* most entries of a rule table
MaxRows == 2     \* most rows of an abstracted-measurements frame
MaxTime == 2     \* instants are 0..MaxTime
MaxCalls == 3    \* most apply_rule calls in a history
MaxRoster == 3   \* most rows of the roster

(***************************************************************************)
(* Python values.                                                          *)
(***************************************************************************)
PyNone == [type |-> "NoneType", s |-> <<>>, n |-> 0]
PyStr(chars) == [type |-> "str", s |-> chars, n |-> 0]
PyInt(i) == [type |-> "int", s |-> <<>>, n |-> i]
PyDatetime(t) == [type |-> "datetime", s |-> <<>>, n |-> t]

Digit == <<"0", "1", "2", "3", "4", "5", "6", "7", "8", "9">>

RECURSIVE Decimal(_)
Decimal(i) ==
    IF i < 10 THEN <<Digit[i + 1]>>
    ELSE Decimal(i \div 10) \o <<Digit[(i % 10) + 1]>>

\* now.strftime('%Y-%m-%d %H:%M:%S'): the digits of the instant
strftime(t) == Decimal(t)

\* str(v): the characters of v's string form
str(v) ==
    CASE v.type = "str" -> v.s
      [] v.type = "int" -> Decimal(v.n)
      [] v.type = "datetime" -> strftime(v.n)
      [] v.type = "NoneType" -> <<"N", "o", "n", "e">>

\* bool(v): Python truthiness, as tested by `not v` and `v or ...`
truthy(v) ==
    CASE v.type = "str" -> v.s # <<>>
      [] v.type = "int" -> v.n # 0
      [] v.type = "datetime" -> TRUE
      [] v.type = "NoneType" -> FALSE

\* s.strip(): without the leading and trailing blanks
RECURSIVE lstrip(_)
lstrip(chars) ==
    IF chars # <<>> /\ Head(chars) = " " THEN lstrip(Tail(chars)) ELSE chars

RECURSIVE rstrip(_)
rstrip(chars) ==
    IF chars # <<>> /\ chars[Len(chars)] = " "
    THEN rstrip(SubSeq(chars, 1, Len(chars) - 1))
    ELSE chars

strip(chars) == rstrip(lstrip(chars))

\* the instant a string of digits names
RECURSIVE parse_digits(_)
parse_digits(chars) ==
    IF chars = <<>> THEN 0
    ELSE 10 * parse_digits(SubSeq(chars, 1, Len(chars) - 1))
           + ((CHOOSE d \in 1..10 : Digit[d] = chars[Len(chars)]) - 1)

\* sep.join(parts)
RECURSIVE join(_, _)
join(sep, parts) ==
    IF parts = <<>> THEN <<>>
    ELSE IF Len(parts) = 1 THEN parts[1]
    ELSE parts[1] \o sep \o join(sep, Tail(parts))

(***************************************************************************)
(* A dict is the sequence of its (key, value) entries in insertion order,  *)
(* keys distinct.                                                          *)
(***************************************************************************)
\* d.get(key, default)
RECURSIVE dict_get(_, _, _)
dict_get(d, key, default) ==
    IF d = <<>> THEN default
    ELSE IF d[1][1] = key THEN d[1][2]
    ELSE dict_get(Tail(d), key, default)

(***************************************************************************)
(* backend_config and the rule resource.                                   *)
(***************************************************************************)
HEMATOLOGICAL_RULES == "hematological_rules.json"
Paths == {HEMATOLOGICAL_RULES}

NoRules == [k \in {} |-> PyNone]
NoData == [input_parameters |-> <<>>, rules |-> NoRules]
Missing == [exists |-> FALSE, data |-> NoData]
File(data) == [exists |-> TRUE, data |-> data]

\* A call's outcome: the value returned, or the exception raised; `loads`
\* counts the reads of the rule resource the call made.
NoExc == [type |-> "", msg |-> <<>>]
Returned(v, loads) == [raised |-> FALSE, exc |-> NoExc, value |-> v, loads |-> loads]
Raised(e, loads) == [raised |-> TRUE, exc |-> e, value |-> PyNone, loads |-> loads]

FileNotFoundError(path) ==
    [type |-> "FileNotFoundError", msg |-> <<"Rule file not found: ", path>>]

(***************************************************************************)
(* RuleProcessor                                                           *)
(***************************************************************************)
isfile(path) == path \in DOMAIN fs /\ fs[path].exists

\* faulty variant: the rule loaded by the first call is kept and served again
load_rule_cached(rule_path) ==
    IF calls # <<>> /\ calls[1].content.exists
    THEN [raised |-> FALSE, exc |-> NoExc, data |-> calls[1].content.data]
    ELSE IF isfile(rule_path)
    THEN [raised |-> FALSE, exc |-> NoExc, data |-> fs[rule_path].data]
    ELSE [raised |-> TRUE, exc |-> FileNotFoundError(rule_path), data |-> NoData]

load_rule(rule_path) ==
    IF isfile(rule_path)
    THEN [raised |-> FALSE, exc |-> NoExc, data |-> fs[rule_path].data]
    ELSE [raised |-> TRUE, exc |-> FileNotFoundError(rule_path), data |-> NoData]

\* faulty variant: joins the mapping's values in the mapping's own order
lookup_key_in_mapping_order(input_parameters, values) ==
    join(<<",">>, [i \in 1..Len(values) |-> str(values[i][2])])

\* faulty variant: input_values.get(param), without the "" default
lookup_key_without_default(input_parameters, values) ==
    join(<<",">>, [i \in 1..Len(input_parameters) |->
                      str(dict_get(values, input_parameters[i], PyNone))])

\* ",".join(str(input_values.get(param, "")) for param in input_parameters)
lookup_key(input_parameters, values) ==
    join(<<",">>, [i \in 1..Len(input_parameters) |->
                      str(dict_get(values, input_parameters[i], PyStr(<<>>)))])

\* rules.get(key, None)
rules_get(rules, key) == IF key \in DOMAIN rules THEN rules[key] ELSE PyNone

apply_rule(rule_path, values) ==
    LET rule_data == load_rule(rule_path) IN
    IF rule_data.raised THEN Raised(rule_data.exc, 1)
    ELSE Returned(rules_get(rule_data.data.rules,
                            lookup_key(rule_data.data.input_parameters, values)), 1)

(***************************************************************************)
(* SimpleRuleEngine: the temporal value extractor.                         *)
(*                                                                         *)
(* A DataFrame is the sequence of its rows in order; a row carries its     *)
(* index label and the columns Concept Name, StartDateTime, EndDateTime    *)
(* and Value.  The datetime columns hold instants (datetime64), on which   *)
(* pd.to_datetime changes nothing; Series.idxmax is defined on them only.  *)
(***************************************************************************)
Row(label, concept, start, end, value) ==
    [label |-> label, concept |-> concept, start |-> start, end |-> end, value |-> value]

\* a frame with the default index: labels are the positions
Frame(rows) ==
    [i \in 1..Len(rows) |->
        Row(i, rows[i].concept, rows[i].start, rows[i].end, rows[i].value)]

\* pd.to_datetime of an instant of a datetime column
to_datetime(t) == t

\* df.empty
empty(frame) == Len(frame) = 0

\* faulty variant: the end of the interval is excluded
RECURSIVE mask_rows_end_exclusive(_, _, _)
mask_rows_end_exclusive(frame, name, instant) ==
    IF frame = <<>> THEN <<>>
    ELSE LET r == Head(frame)
             keep == /\ r.concept = name
                     /\ r.start <= instant
                     /\ r.end > instant
         IN  (IF keep THEN <<r>> ELSE <<>>)
                \o mask_rows_end_exclusive(Tail(frame), name, instant)

\* df[mask]: the rows the mask keeps, in order, with their labels
RECURSIVE mask_rows(_, _, _)
mask_rows(frame, name, instant) ==
    IF frame = <<>> THEN <<>>
    ELSE LET r == Head(frame)
             keep == /\ r.concept = name
                     /\ to_datetime(r.start) <= instant
                     /\ to_datetime(r.end) >= instant
         IN  (IF keep THEN <<r>> ELSE <<>>) \o mask_rows(Tail(frame), name, instant)

\* faulty variant: the label of the last row holding the maximum
RECURSIVE idxmax_last(_)
idxmax_last(frame) ==
    IF Len(frame) = 1 THEN frame[1].label
    ELSE LET rest == Tail(frame)
             best == idxmax_last(rest)
             bestStart == (CHOOSE r \in {rest[i] : i \in DOMAIN rest} : r.label = best).start
         IN  IF frame[1].start > bestStart THEN frame[1].label ELSE best

\* Series.idxmax of StartDateTime: the label of the first row holding the maximum
RECURSIVE idxmax(_)
idxmax(frame) ==
    IF Len(frame) = 1 THEN frame[1].label
    ELSE LET rest == Tail(frame)
             best == idxmax(rest)
             bestStart == (CHOOSE r \in {rest[i] : i \in DOMAIN rest} : r.label = best).start
         IN  IF frame[1].start >= bestStart THEN frame[1].label ELSE best

\* frame.loc[label]
loc(frame, label) == CHOOSE r \in {frame[i] : i \in DOMAIN frame} : r.label = label

get_latest_abstracted_value(frame, name, instant) ==
    IF empty(frame) THEN PyNone
    ELSE LET concept_data == mask_rows(frame, name, instant)
         IN  IF empty(concept_data) THEN PyNone
             ELSE loc(concept_data, idxmax(concept_data)).value

(***************************************************************************)
(* SimpleRuleEngine: the single-patient and the population analysis.       *)
(***************************************************************************)
\* faulty variant: the rule is applied whatever the two states are
get_hematological_state_unguarded(hemoglobin_state, wbc_level) ==
    apply_rule(HEMATOLOGICAL_RULES,
               << <<"hemoglobin_state", hemoglobin_state>>, <<"wbc_level", wbc_level>> >>)

\* faulty variant: a failure of the rule processor is answered with None
get_hematological_state_swallowing(hemoglobin_state, wbc_level) ==
    IF ~truthy(hemoglobin_state) \/ ~truthy(wbc_level) THEN Returned(PyNone, 0)
    ELSE LET applied ==
                 apply_rule(HEMATOLOGICAL_RULES,
                            << <<"hemoglobin_state", hemoglobin_state>>,
                               <<"wbc_level", wbc_level>> >>)
         IN  IF applied.raised THEN Returned(PyNone, applied.loads) ELSE applied

get_hematological_state(hemoglobin_state, wbc_level) ==
    IF ~truthy(hemoglobin_state) \/ ~truthy(wbc_level) THEN Returned(PyNone, 0)
    ELSE apply_rule(HEMATOLOGICAL_RULES,
                    << <<"hemoglobin_state", hemoglobin_state>>,
                       <<"wbc_level", wbc_level>> >>)

\* self.mediator.run(patient_id, snapshot_date): a frame, or an exception
mediator_run(patient_id, date) == abstracted[patient_id.s]

\* pd.to_datetime(snapshot_date) of a string; a datetime is taken as it is
snapshot_instant(date) ==
    IF date.type = "str" THEN parse_digits(date.s) ELSE date.n

NO_DATA == <<"No abstracted data available for this patient">>

\* What a single-patient analysis did: the dict returned or the exception
\* raised, the reads of the rule resource and the extractions it made.
AnalysisReturned(result, loads, extractions) ==
    [raised |-> FALSE, exc |-> NoExc, result |-> result,
     loads |-> loads, extractions |-> extractions]
AnalysisRaised(e, loads, extractions) ==
    [raised |-> TRUE, exc |-> e, result |-> [raised |-> TRUE],
     loads |-> loads, extractions |-> extractions]

no_data_result(patient_id, date) ==
    [patient_id |-> patient_id,
     snapshot_date |-> date,
     hemoglobin_state |-> PyNone,
     wbc_level |-> PyNone,
     hematological_state |-> PyNone,
     error |-> NO_DATA]

analysis_result(patient_id, date, hemoglobin_state, wbc_level, state, frame) ==
    [patient_id |-> patient_id,
     snapshot_date |-> date,
     individual_states |-> [hemoglobin_state |-> hemoglobin_state,
                            wbc_level |-> wbc_level],
     hematological_state |-> state,
     abstracted_data |-> frame]

\* steps 2 and 3 of the single-patient analysis
analyze_abstracted(patient_id, date, abstracted_df) ==
    LET instant == snapshot_instant(date)
        hemoglobin_state ==
            get_latest_abstracted_value(abstracted_df, "Hemoglobin_Level", instant)
        wbc_level == get_latest_abstracted_value(abstracted_df, "WBC_Level", instant)
        state == get_hematological_state(hemoglobin_state, wbc_level)
    IN  IF state.raised THEN AnalysisRaised(state.exc, state.loads, 2)
        ELSE AnalysisReturned(
                 analysis_result(patient_id, date, hemoglobin_state, wbc_level,
                                 state.value, abstracted_df),
                 state.loads, 2)

\* faulty variant: an empty frame is analysed like any other
analyze_patient_without_empty_check(patient_id, date) ==
    LET id == PyStr(strip(str(patient_id)))
        used == IF truthy(date) THEN date ELSE PyStr(strftime(clock))
        run == mediator_run(id, used)
    IN  IF run.raised THEN AnalysisRaised(run.exc, 0, 0)
        ELSE analyze_abstracted(id, used, run.frame)

analyze_patient_hematological_state(patient_id, date) ==
    LET id == PyStr(strip(str(patient_id)))
        used == IF truthy(date) THEN date ELSE PyStr(strftime(clock))
        run == mediator_run(id, used)
    IN  IF run.raised THEN AnalysisRaised(run.exc, 0, 0)
        ELSE IF empty(run.frame) THEN AnalysisReturned(no_data_result(id, used), 0, 0)
        ELSE analyze_abstracted(id, used, run.frame)

\* the record of a failed analysis
error_record(row, e) ==
    [patient_id |-> row[1], first_name |-> row[2], last_name |-> row[3],
     error |-> e.msg]

\* faulty variant: a failed analysis leaves no record
results_after_skipping_failures(list, row, outcome) ==
    IF outcome.raised THEN list
    ELSE Append(list, outcome.result
                        @@ [first_name |-> row[2], last_name |-> row[3]])

\* the body of the roster loop: the results list after one more row
results_after(list, row, outcome) ==
    IF outcome.raised THEN Append(list, error_record(row, outcome.exc))
    ELSE Append(list, [first_name |-> row[2], last_name |-> row[3]]
                        @@ outcome.result)

(***************************************************************************)
(* Inputs of the rule processor.                                           *)
(***************************************************************************)
Chars == {"1", ","}
Outcomes == {PyStr(<<"A">>), PyStr(<<"B">>)}
ParamNames == {"hemoglobin_state", "wbc_level"}

Strings(maxlen) == UNION {[1..k -> Chars] : k \in 0..maxlen}

\* strings, and an integer whose string form is one of them
InputValues == {PyStr(s) : s \in Strings(MaxLen)} \cup {PyInt(1)}

\* every dict over ParamNames, in either insertion order
InputMappings ==
    {<<>>}
    \cup {<<(<<p, v>>)>> : p \in ParamNames, v \in InputValues}
    \cup {<<(<<pq[1], v>>), (<<pq[2], w>>)>> :
            pq \in {x \in ParamNames \X ParamNames : x[1] # x[2]},
            v \in InputValues, w \in InputValues}

ParameterLists ==
    {<<"hemoglobin_state">>,
     <<"hemoglobin_state", "wbc_level">>,
     <<"wbc_level", "hemoglobin_state">>}

\* the sets of at most n keys
RECURSIVE KeySets(_)
KeySets(n) ==
    IF n = 0 THEN {{}}
    ELSE LET smaller == KeySets(n - 1)
         IN  smaller \cup {S \cup {k} : S \in smaller, k \in Strings(MaxKeyLen)}

RuleTables == UNION {[K -> Outcomes] : K \in KeySets(MaxRules)}

RuleDefinitions ==
    {[input_parameters |-> ps, rules |-> t] : ps \in ParameterLists, t \in RuleTables}

Resources == {Missing} \cup {File(d) : d \in RuleDefinitions}

NotCalled == [raised |-> FALSE, exc |-> NoExc, value |-> PyNone, loads |-> 0]

RuleIdle == input_values = <<>> /\ ret = NotCalled
ExtractIdle == df = <<>> /\ concept_name = "" /\ snapshot_time = 0 /\ latest = PyNone
ReloadIdle == calls = <<>>
EngineIdle ==
    /\ all_patients = <<>>
    /\ abstracted = <<>>
    /\ snapshot_date = PyNone
    /\ clock = 0
    /\ next_row = 0
    /\ results = <<>>
    /\ outcomes = <<>>

(***************************************************************************)
(* SpecRule: apply_rule on every rule resource and every input mapping.    *)
(***************************************************************************)
InitRule ==
    /\ fs \in [Paths -> Resources]
    /\ input_values \in InputMappings
    /\ ret = NotCalled
    /\ pc = "call"
    /\ ExtractIdle
    /\ ReloadIdle
    /\ EngineIdle

ApplyRule ==
    /\ pc = "call"
    /\ ret' = apply_rule(HEMATOLOGICAL_RULES, input_values)
    /\ pc' = "returned"
    /\ UNCHANGED <<fs, input_values, extractVars, calls, engineVars>>

NextRule == ApplyRule

SpecRule == InitRule /\ [][NextRule]_vars

(***************************************************************************)
(* Inputs of the extractor.                                                *)
(***************************************************************************)
Concepts == {"Hemoglobin_Level", "WBC_Level"}
Instants == 0..MaxTime
\* abstracted values: categories, among them the empty one
AbstractedValues == {PyStr(<<>>), PyStr(<<"1">>)}

\* validity intervals [start, end]
Intervals == {ab \in Instants \X Instants : ab[1] <= ab[2]}

RowData ==
    {Row(0, c, ab[1], ab[2], v) : c \in Concepts, ab \in Intervals, v \in AbstractedValues}

RowLists == UNION {[1..k -> RowData] : k \in 0..MaxRows}

(***************************************************************************)
(* SpecExtract: get_latest_abstracted_value on every frame.                *)
(***************************************************************************)
InitExtract ==
    /\ \E rows \in RowLists : df = Frame(rows)
    /\ concept_name \in Concepts
    /\ snapshot_time \in Instants
    /\ latest = PyNone
    /\ pc = "call"
    /\ fs = [p \in Paths |-> Missing]
    /\ RuleIdle
    /\ ReloadIdle
    /\ EngineIdle

ExtractLatest ==
    /\ pc = "call"
    /\ latest' = get_latest_abstracted_value(df, concept_name, snapshot_time)
    /\ pc' = "returned"
    /\ UNCHANGED <<fs, ruleVars, df, concept_name, snapshot_time, calls, engineVars>>

NextExtract == ExtractLatest

SpecExtract == InitExtract /\ [][NextExtract]_vars

(***************************************************************************)
(* SpecReload: apply_rule calls interleaved with changes of the rule       *)
(* resource (content changed, resource removed, resource restored).        *)
(***************************************************************************)
ReloadInputs ==
    {<< <<"hemoglobin_state", PyStr(<<"1">>)>>, <<"wbc_level", PyStr(<<"1">>)>> >>,
     << <<"hemoglobin_state", PyStr(<<"1">>)>> >>}

ReloadDefinitions ==
    {[input_parameters |-> <<"hemoglobin_state", "wbc_level">>, rules |-> t] :
        t \in {(<<"1", ",", "1">> :> PyStr(<<"A">>)),
               (<<"1", ",", "1">> :> PyStr(<<"B">>)),
               (<<"1", ",">> :> PyStr(<<"A">>))}}

InitReload ==
    /\ fs \in [Paths -> {Missing} \cup {File(d) : d \in ReloadDefinitions}]
    /\ calls = <<>>
    /\ pc = "idle"
    /\ RuleIdle
    /\ ExtractIdle
    /\ EngineIdle

\* a call of apply_rule, from its first line to its return or raise
CallApplyRule ==
    /\ Len(calls) < MaxCalls
    /\ \E values \in ReloadInputs :
          calls' = Append(calls, [content |-> fs[HEMATOLOGICAL_RULES],
                                  input_values |-> values,
                                  ret |-> apply_rule(HEMATOLOGICAL_RULES, values)])
    /\ UNCHANGED <<fs, pc, ruleVars, extractVars, engineVars>>

\* the rule file is written: created, restored or changed
WriteResource ==
    /\ \E d \in ReloadDefinitions :
          /\ fs[HEMATOLOGICAL_RULES] # File(d)
          /\ fs' = [fs EXCEPT ![HEMATOLOGICAL_RULES] = File(d)]
    /\ UNCHANGED <<pc, ruleVars, extractVars, calls, engineVars>>

\* the rule file is removed
RemoveResource ==
    /\ fs[HEMATOLOGICAL_RULES].exists
    /\ fs' = [fs EXCEPT ![HEMATOLOGICAL_RULES] = Missing]
    /\ UNCHANGED <<pc, ruleVars, extractVars, calls, engineVars>>

NextReload == CallApplyRule \/ WriteResource \/ RemoveResource

SpecReload == InitReload /\ [][NextReload]_vars

(***************************************************************************)
(* SpecEngine: analyze_all_patients_hematological_state over a roster.     *)
(***************************************************************************)
\* roster rows (patient_id, first_name, last_name, sex); the ids are an
\* integer and a string with a leading blank
RosterRows ==
    {<<PyInt(1), "Ann", "Lee", "F">>, <<PyStr(<<" ", "2">>), "Bob", "Ray", "M">>}

Rosters == UNION {[1..k -> RosterRows] : k \in 0..MaxRoster}

PatientIds == {<<"1">>, <<"2">>}

\* the mediator's frames here: at most one hemoglobin row, then at most one
\* WBC row, each valid from instant 0 or from instant 1
EngineRows(concept) ==
    {<<>>} \cup {<<Row(0, concept, a, 1, v)>> : a \in {0, 1}, v \in AbstractedValues}

EngineFrames ==
    {Frame(h \o w) : h \in EngineRows("Hemoglobin_Level"), w \in EngineRows("WBC_Level")}

MediatorError == [type |-> "MediatorError", msg |-> <<"mediator failed">>]

MediatorRuns ==
    {[raised |-> TRUE, exc |-> MediatorError, frame |-> <<>>]}
    \cup {[raised |-> FALSE, exc |-> NoExc, frame |-> f] : f \in EngineFrames}

EngineDefinitions ==
    {[input_parameters |-> <<"hemoglobin_state", "wbc_level">>, rules |-> t] :
        t \in {(<<"1", ",", "1">> :> PyStr(<<"A">>)),
               (<<"1", ",", "1">> :> PyStr(<<"A">>)) @@ (<<",", "1">> :> PyStr(<<"B">>))}}

SnapshotDates == {PyNone, PyStr(<<"0">>), PyDatetime(1)}

InitEngine ==
    /\ fs \in [Paths -> {Missing} \cup {File(d) : d \in EngineDefinitions}]
    /\ all_patients \in Rosters
    /\ abstracted \in [PatientIds -> MediatorRuns]
    /\ snapshot_date \in SnapshotDates
    /\ clock \in (IF snapshot_date = PyNone THEN {0, 1} ELSE {0})  \* read only then
    /\ next_row = 0
    /\ results = <<>>
    /\ outcomes = <<>>
    /\ pc = "fetch"
    /\ RuleIdle
    /\ ExtractIdle
    /\ ReloadIdle

\* all_patients = self.db.fetch_records(...); an empty roster returns []
FetchRoster ==
    /\ pc = "fetch"
    /\ pc' = IF all_patients = <<>> THEN "done" ELSE "loop"
    /\ next_row' = 1
    /\ UNCHANGED <<fs, ruleVars, extractVars, calls, all_patients, abstracted,
                   snapshot_date, clock, results, outcomes>>

\* one pass of the roster loop: the analysis of a row, and its record
AnalyzeRow ==
    /\ pc = "loop"
    /\ next_row <= Len(all_patients)
    /\ LET row == all_patients[next_row]
           outcome == analyze_patient_hematological_state(row[1], snapshot_date)
       IN  /\ results' = results_after(results, row, outcome)
           /\ outcomes' = Append(outcomes, outcome)
    /\ next_row' = next_row + 1
    /\ UNCHANGED <<fs, pc, ruleVars, extractVars, calls, all_patients, abstracted,
                   snapshot_date, clock>>

\* return results
ReturnResults ==
    /\ pc = "loop"
    /\ next_row > Len(all_patients)
    /\ pc' = "done"
    /\ UNCHANGED <<fs, ruleVars, extractVars, calls, engineVars>>

NextEngine == FetchRoster \/ AnalyzeRow \/ ReturnResults

SpecEngine == InitEngine /\ [][NextEngine]_vars

(***************************************************************************)
(* Claims about apply_rule (SpecRule).                                     *)
(***************************************************************************)
Resource == fs[HEMATOLOGICAL_RULES]
Declared == Resource.data.input_parameters
Table == Resource.data.rules

\* the values a mapping holds for a name, whatever the order of its entries
EntryValues(m, p) == {m[i][2] : i \in {j \in DOMAIN m : m[j][1] = p}}

\* the string form of the value given for p, the empty string when p is not given
FieldOf(m, p) ==
    IF EntryValues(m, p) = {} THEN <<>>
    ELSE str(CHOOSE v \in EntryValues(m, p) : TRUE)

\* where field i starts in the comma-join of fields: after the earlier fields
\* and one comma for each
RECURSIVE Offset(_, _)
Offset(fields, i) ==
    IF i = 1 THEN 0 ELSE Offset(fields, i - 1) + Len(fields[i - 1]) + 1

\* key is the fields, in order, with one comma between neighbours
IsCommaJoin(key, fields) ==
    LET n == Len(fields) IN
    IF n = 0 THEN key = <<>>
    ELSE /\ Len(key) = Offset(fields, n) + Len(fields[n])
         /\ \A i \in 1..n :
              /\ \A k \in 1..Len(fields[i]) : key[Offset(fields, i) + k] = fields[i][k]
              /\ i < n => key[Offset(fields, i) + Len(fields[i]) + 1] = ","

DeclaredFields == [i \in 1..Len(Declared) |-> FieldOf(input_values, Declared[i])]

\* C1: apply_rule returns rules[key] when key is in rules and None otherwise,
\* key being the comma-join, in declared parameter order, of the string forms
\* of the parameters' values; entry order and extra names do not matter.
C1_ReturnsRuleOfJoinedKey ==
    (pc = "returned" /\ Resource.exists) =>
        /\ ~ret.raised
        /\ LET matching == {k \in DOMAIN Table : IsCommaJoin(k, DeclaredFields)}
           IN  IF matching = {} THEN ret.value = PyNone
               ELSE \E k \in matching : ret.value = Table[k]

\* a call with both parameters declared and given, second-declared first, with
\* different values and an extra name or not, that matched
C1_Witness ==
    /\ pc = "returned"
    /\ Resource.exists
    /\ Len(Declared) = 2
    /\ Len(input_values) = 2
    /\ input_values[1][1] = Declared[2]
    /\ str(input_values[1][2]) # str(input_values[2][2])
    /\ input_values[2][2].type = "int"
    /\ ret.value \in Outcomes

\* the declared parameters the mapping does not give
Omitted == {p \in {Declared[i] : i \in DOMAIN Declared} : EntryValues(input_values, p) = {}}

FieldsWithOmittedEmpty ==
    [i \in 1..Len(Declared) |->
        IF Declared[i] \in Omitted THEN <<>> ELSE FieldOf(input_values, Declared[i])]

\* C7: a mapping that omits a declared parameter p gets the outcome of the
\* mapping with p set to the empty string, and a table key with an empty field
\* at p's position is matched, not answered with None.
C7_OmittedIsEmptyString ==
    (pc = "returned" /\ Resource.exists /\ Omitted # {}) =>
        /\ \A p \in Omitted :
              ret = apply_rule(HEMATOLOGICAL_RULES,
                               Append(input_values, <<p, PyStr(<<>>)>>))
        /\ \A k \in DOMAIN Table :
              IsCommaJoin(k, FieldsWithOmittedEmpty) => ret.value = Table[k]

C7_Witness ==
    /\ pc = "returned"
    /\ Resource.exists
    /\ Len(Declared) = 2
    /\ Declared[1] \in Omitted
    /\ Declared[2] \notin Omitted
    /\ ret.value \in Outcomes

\* the number of comma-separated fields of a key
FieldCount(key) == 1 + Cardinality({i \in DOMAIN key : key[i] = ","})

\* C8: a lookup succeeds only on keys with as many comma-joined fields as there
\* are declared parameters; a table whose keys all have another field count
\* yields None for every input.
C8_MatchesOnlyDeclaredArity ==
    (pc = "returned" /\ Resource.exists) =>
        /\ (\A k \in DOMAIN Table : FieldCount(k) # Len(Declared)) => ret.value = PyNone
        /\ ret.value # PyNone =>
              \E k \in DOMAIN Table : Table[k] = ret.value /\ FieldCount(k) = Len(Declared)

(***************************************************************************)
(* Claims about get_latest_abstracted_value (SpecExtract).                 *)
(***************************************************************************)
\* the rows of df for the concept whose interval holds the snapshot instant
Passing ==
    {i \in DOMAIN df : /\ df[i].concept = concept_name
                       /\ df[i].start <= snapshot_time
                       /\ snapshot_time <= df[i].end}

Latest == {i \in Passing : \A j \in Passing : df[j].start <= df[i].start}

\* C2: the extractor returns the Value of a passing record with the maximum
\* StartDateTime (bounds inclusive), and None exactly when no record passes.
C2_ReturnsLatestPassingValue ==
    pc = "returned" =>
        /\ (latest = PyNone) <=> (Passing = {})
        /\ Passing # {} => \E i \in Latest : latest = df[i].value

\* two overlapping intervals of the concept, one ending at the snapshot instant,
\* the later-started one listed first and holding another value
C2_Witness ==
    /\ pc = "returned"
    /\ Cardinality(Passing) = 2
    /\ Cardinality(Latest) = 1
    /\ \E i \in Latest : \E j \in Passing :
          /\ i < j
          /\ df[i].value # df[j].value
          /\ df[j].end = snapshot_time
          /\ latest = df[i].value

\* C10: when several passing records share the maximum StartDateTime, the
\* extractor returns the Value of the first of them in input order.
C10_TieReturnsFirstInOrder ==
    (pc = "returned" /\ Cardinality(Latest) >= 2) =>
        latest = df[CHOOSE i \in Latest : \A j \in Latest : i <= j].value

C10_Witness ==
    /\ pc = "returned"
    /\ Cardinality(Latest) >= 2
    /\ \E i \in Latest : \E j \in Latest : df[i].value # df[j].value

(***************************************************************************)
(* Claim about reloading (SpecReload).                                     *)
(***************************************************************************)
\* C9: every apply_rule call reads the rule resource exactly once, fails
\* exactly when the resource is missing at the time of the call, and calls that
\* meet the same resource content with the same input values end the same way,
\* whatever was called or changed before.
C9_EachCallReadsTheResourceAfresh ==
    \A i \in DOMAIN calls :
        /\ calls[i].ret.loads = 1
        /\ calls[i].ret.raised <=> ~calls[i].content.exists
        /\ \A j \in DOMAIN calls :
              (calls[j].content = calls[i].content
                 /\ calls[j].input_values = calls[i].input_values)
              => calls[j].ret = calls[i].ret

\* the same input three times: on a rule, with the resource removed, and with
\* another content
C9_Witness ==
    /\ Len(calls) = 3
    /\ calls[1].input_values = calls[2].input_values
    /\ calls[2].input_values = calls[3].input_values
    /\ calls[1].content.exists
    /\ ~calls[2].content.exists
    /\ calls[3].content.exists
    /\ calls[1].ret.value \in Outcomes
    /\ calls[2].ret.raised
    /\ calls[3].ret.value \in Outcomes
    /\ calls[3].ret.value # calls[1].ret.value

(***************************************************************************)
(* Claims about the analyses (SpecEngine).                                 *)
(***************************************************************************)
Analysed == DOMAIN outcomes

\* what the mediator holds for the patient of roster row k
RunOf(k) == abstracted[strip(str(all_patients[k][1]))]

\* the snapshot instant of the analyses
InstantUsed ==
    CASE snapshot_date = PyNone -> clock
      [] snapshot_date.type = "str" -> parse_digits(snapshot_date.s)
      [] OTHER -> snapshot_date.n

\* null or empty
Absent(v) == v = PyNone \/ v = PyStr(<<>>)

\* C3: the population analysis leaves exactly one record per roster row, in
\* roster order: the analysis result with the row's names for an analysis that
\* returned, an error record (id, names, message) for one that raised; records
\* of earlier rows stay as they are and later rows are still analysed.
C3_OneRecordPerRosterRow ==
    /\ Len(results) = Len(outcomes)
    /\ pc = "done" => Len(results) = Len(all_patients)
    /\ \A k \in Analysed :
          LET row == all_patients[k] IN
          IF outcomes[k].raised
          THEN results[k] = [patient_id |-> row[1], first_name |-> row[2],
                             last_name |-> row[3], error |-> outcomes[k].exc.msg]
          ELSE /\ DOMAIN results[k] = DOMAIN outcomes[k].result \cup {"first_name", "last_name"}
               /\ \A f \in DOMAIN outcomes[k].result : results[k][f] = outcomes[k].result[f]
               /\ results[k].first_name = row[2]
               /\ results[k].last_name = row[3]
               /\ results[k].patient_id.type = "str"

\* a roster of three whose second analysis raised and whose others returned
C3_Witness ==
    /\ pc = "done"
    /\ Len(all_patients) = 3
    /\ Len(results) = 3
    /\ ~outcomes[1].raised
    /\ outcomes[2].raised
    /\ ~outcomes[3].raised
    /\ "error" \in DOMAIN results[2]
    /\ "hematological_state" \in DOMAIN results[3]

\* the two individual states of a result
IndividualStates(result) ==
    IF "individual_states" \in DOMAIN result
    THEN {result.individual_states.hemoglobin_state, result.individual_states.wbc_level}
    ELSE {result.hemoglobin_state, result.wbc_level}

\* C4: in every result of the single-patient analysis with a null or empty
\* hemoglobin state or WBC level, hematological_state is None and the rule
\* resource was not read.
C4_MissingStateGivesNoCompound ==
    \A k \in Analysed :
        (~outcomes[k].raised /\ \E v \in IndividualStates(outcomes[k].result) : Absent(v))
        => /\ outcomes[k].result.hematological_state = PyNone
           /\ outcomes[k].loads = 0

\* an extracted empty hemoglobin state beside a WBC level, with a rule table
\* that holds the key of that pair
C4_Witness ==
    \E k \in Analysed :
        /\ ~outcomes[k].raised
        /\ "individual_states" \in DOMAIN outcomes[k].result
        /\ outcomes[k].result.individual_states.hemoglobin_state = PyStr(<<>>)
        /\ outcomes[k].result.individual_states.wbc_level = PyStr(<<"1">>)
        /\ fs[HEMATOLOGICAL_RULES].exists
        /\ <<",", "1">> \in DOMAIN fs[HEMATOLOGICAL_RULES].data.rules
        /\ outcomes[k].result.hematological_state = PyNone

\* C5: on an empty frame from the mediator the single-patient analysis returns
\* (it does not raise) the all-None result with the no-data marker, without an
\* extraction or a rule evaluation; on a frame with rows a returned result has
\* no error field.
C5_EmptyFrameGivesNoDataResult ==
    \A k \in Analysed :
        ~RunOf(k).raised =>
            IF RunOf(k).frame = <<>>
            THEN /\ ~outcomes[k].raised
                 /\ outcomes[k].extractions = 0
                 /\ outcomes[k].loads = 0
                 /\ DOMAIN outcomes[k].result =
                        {"patient_id", "snapshot_date", "hemoglobin_state", "wbc_level",
                         "hematological_state", "error"}
                 /\ outcomes[k].result.hemoglobin_state = PyNone
                 /\ outcomes[k].result.wbc_level = PyNone
                 /\ outcomes[k].result.hematological_state = PyNone
                 /\ outcomes[k].result.error =
                        <<"No abstracted data available for this patient">>
            ELSE ~outcomes[k].raised => "error" \notin DOMAIN outcomes[k].result

\* an empty frame for one patient and a frame with rows for another, with the
\* rule resource missing
C5_Witness ==
    /\ ~fs[HEMATOLOGICAL_RULES].exists
    /\ \E k \in Analysed : ~RunOf(k).raised /\ RunOf(k).frame = <<>>
    /\ \E k \in Analysed : ~RunOf(k).raised /\ RunOf(k).frame # <<>> /\ ~outcomes[k].raised

\* the analysis of row k reaches the rule evaluation: the mediator gave a
\* frame in which both concepts have a non-empty value at the snapshot instant
Evaluates(k) ==
    /\ ~RunOf(k).raised
    /\ \A c \in Concepts :
          \E i \in DOMAIN RunOf(k).frame :
             /\ RunOf(k).frame[i].concept = c
             /\ RunOf(k).frame[i].start <= InstantUsed
             /\ InstantUsed <= RunOf(k).frame[i].end
             /\ RunOf(k).frame[i].value # PyStr(<<>>)

\* C6: with the rule resource missing, the FileNotFoundError of load_rule comes
\* out of apply_rule and of the single-patient analysis as it was raised, and
\* becomes an error record only in the roster loop.
C6_MissingRuleFilePropagates ==
    \A k \in Analysed :
        (~fs[HEMATOLOGICAL_RULES].exists /\ Evaluates(k)) =>
            /\ outcomes[k].raised
            /\ outcomes[k].exc =
                  [type |-> "FileNotFoundError",
                   msg |-> <<"Rule file not found: ", HEMATOLOGICAL_RULES>>]
            /\ outcomes[k].loads = 1
            /\ results[k] =
                  [patient_id |-> all_patients[k][1],
                   first_name |-> all_patients[k][2],
                   last_name |-> all_patients[k][3],
                   error |-> <<"Rule file not found: ", HEMATOLOGICAL_RULES>>]

C6_Witness ==
    /\ ~fs[HEMATOLOGICAL_RULES].exists
    /\ \E k \in Analysed : Evaluates(k) /\ outcomes[k].raised
    /\ \E k \in Analysed : ~outcomes[k].raised

====
